---- MODULE Spec2Model ----
(***************************************************************************)
(* Model of arcadeBonnet.py: the MCP23017 interrupt handler mcp_irq, the   *)
(* start-up sequence and the main (watchdog) loop, together with the three *)
(* collaborators the program talks to: the port expander (16 input pins    *)
(* and an open-drain interrupt line), the uinput event sink, and the GPIO  *)
(* falling-edge callback facility.                                         *)
(***************************************************************************)
EXTENDS Integers, Sequences, FiniteSets

\* ------------------------------------------------------------------------
\* Bounds of the model
\* ------------------------------------------------------------------------

\* Number of port levels (taken from PortTable) that the environment produces.
NumPortValues == 3

\* Number of failing collaborator calls (bus read, ui.write, ui.syn) in a run.
MaxFailures == 1

\* ------------------------------------------------------------------------
\* Program constants
\* ------------------------------------------------------------------------

\* The key table; index i of the source is index i + 1 here.  The values
\* are the evdev key codes of the names used in the source.
key ==
    << 29, 56, 44, 45, 57, 28, 0, 0, 108, 103, 106, 105, 38, 35, 36, 37 >>

\* for i in range(16)
NumBits == 16

\* Value of oldState before line 133 has run (the global does not exist).
Undefined == -1

\* ------------------------------------------------------------------------
\* Pure helpers
\* ------------------------------------------------------------------------

\* v & (1 << i)
AndBit(v, i) == ((v \div (2 ^ i)) % 2) * (2 ^ i)

\* Port levels the environment produces.  With the pull-ups a pin reads 1
\* unless its contact pulls it low: 0xFFFF (nothing pressed), 0xFEFE (bits
\* 0 and 8 low), 0xFFBF (the unconnected bit 6 low), 0xFFFE (bit 0 low),
\* 0xFF3E (bits 0, 6 and 7 low), 0x7FFF (bit 15 low).
PortTable == << 65535, 65278, 65471, 65534, 65342, 32767 >>

PortValues == { PortTable[k] : k \in 1..NumPortValues }

\* bus.read_i2c_block_data(addr, GPIOA, 2): GPIOA then GPIOB
ReadBlock(p) == << p % 256, (p \div 256) % 256 >>

\* The high byte shifted by 16 instead of 8.
Combine_Shift16(x) == (x[2] * 65536) + x[1]

\* newState = (x[1] << 8) | x[0]
Combine(x) == ((x[2] * 256) % 65536) + x[1]

\* lvl != (oldState & bit)
BitDiffers(new, old, i) == AndBit(new, i) # AndBit(old, i)

\* The event written for bit i: ui.write(e.EV_KEY, key[i], 0 if lvl else 1)
EventFor(new, i) ==
    [code |-> key[i + 1], value |-> IF AndBit(new, i) # 0 THEN 0 ELSE 1]

\* The loop running over the bits from 15 down to i.
RECURSIVE LoopEvents_Descending(_, _, _)
LoopEvents_Descending(new, old, i) ==
    IF i >= NumBits THEN << >>
    ELSE LoopEvents_Descending(new, old, i + 1)
             \o (IF BitDiffers(new, old, i) THEN << EventFor(new, i) >>
                 ELSE << >>)

\* for i in range(16): ... ui.write(...) -- the events the loop writes
\* from bit i on, in the order it writes them.
RECURSIVE LoopEvents(_, _, _)
LoopEvents(new, old, i) ==
    IF i >= NumBits THEN << >>
    ELSE (IF BitDiffers(new, old, i) THEN << EventFor(new, i) >> ELSE << >>)
             \o LoopEvents(new, old, i + 1)

\* The dedup test comparing against the wrong value: it never matches.
NoChange_Never(new, old) == new = Undefined

\* quick event dedup: newState == oldState
NoChange(new, old) == new = old

\* ------------------------------------------------------------------------
\* State
\* ------------------------------------------------------------------------

VARIABLES
    mpc,          \* position of the main program
    hpc,          \* position of the callback thread inside mcp_irq
    oldState,     \* the global oldState
    newState,     \* mcp_irq's local newState
    uiKeys,       \* key codes the UInput device was created with
    pending,      \* sink: events written since the last syn
    emitted,      \* events the handler pass in progress has written
    synced,       \* ui.syn calls the handler pass in progress has made
    outcome,      \* how the last handler pass that has returned ended
    inflight,     \* number of mcp_irq invocations that have not returned
    port,         \* expander: level of the 16 pins
    intEnabled,   \* expander: interrupt-on-change configured
    irqLow,       \* expander: interrupt line asserted (irqPin low)
    armed,        \* falling-edge callback registered
    edgePending,  \* an edge has been detected and the callback not yet run
    failures      \* the collaborator calls that have raised so far

vars ==
    << mpc, hpc, oldState, newState, uiKeys, pending, emitted, synced,
       outcome, inflight, port, intEnabled, irqLow, armed, edgePending, failures >>

handlerVars == << hpc, newState, emitted, synced, outcome, inflight >>

envVars == << port, intEnabled, irqLow, armed, edgePending >>

Init ==
    /\ mpc = "ui"
    /\ hpc = "idle"
    /\ oldState = Undefined
    /\ newState = 0
    /\ uiKeys = {}
    /\ pending = << >>
    /\ emitted = << >>
    /\ synced = 0
    /\ outcome = "none"
    /\ inflight = 0
    /\ port \in PortValues
    /\ intEnabled = FALSE
    /\ irqLow = FALSE
    /\ armed = FALSE
    /\ edgePending = FALSE
    /\ failures = 0

Running == mpc # "dead"

CanFail == failures < MaxFailures

\* ------------------------------------------------------------------------
\* Main program: start-up
\* ------------------------------------------------------------------------

\* ui = UInput({e.EV_KEY: key}, ...); bus = SMBus(1)
CreateUi ==
    /\ mpc = "ui"
    /\ uiKeys' = { key[k] : k \in 1..NumBits }
    /\ mpc' = "bank"
    /\ UNCHANGED << oldState, pending, failures >>
    /\ UNCHANGED handlerVars
    /\ UNCHANGED envVars

\* The callback registered before the device is configured.
ConfigBank_ArmsFirst ==
    /\ mpc = "bank"
    /\ armed' = TRUE
    /\ mpc' = "cfg"
    /\ UNCHANGED << oldState, uiKeys, pending, failures >>
    /\ UNCHANGED handlerVars
    /\ UNCHANGED << port, intEnabled, irqLow, edgePending >>

\* bus.write_byte_data(addr, 0x05, 0x00); bus.write_byte_data(addr, IOCONA, 0x44)
ConfigBank ==
    /\ mpc = "bank"
    /\ mpc' = "cfg"
    /\ UNCHANGED << oldState, uiKeys, pending, failures >>
    /\ UNCHANGED handlerVars
    /\ UNCHANGED envVars

\* cfg = read 14 bytes; set direction, polarity, interrupt enable, pull-ups;
\* write the block back.  The block read of IODIRA..INTFB does not touch
\* GPIO or INTCAP, so it leaves the interrupt line alone.
ConfigBlock ==
    /\ mpc = "cfg"
    /\ intEnabled' = TRUE
    /\ mpc' = "gpio"
    /\ UNCHANGED << oldState, uiKeys, pending, failures >>
    /\ UNCHANGED handlerVars
    /\ UNCHANGED << port, irqLow, armed, edgePending >>

\* A bus call of the start-up sequence raises: nothing catches it.
StartupFail ==
    /\ mpc \in {"bank", "cfg"}
    /\ CanFail
    /\ failures' = failures + 1
    /\ mpc' = "dead"
    /\ UNCHANGED << oldState, uiKeys, pending >>
    /\ UNCHANGED handlerVars
    /\ UNCHANGED envVars

\* gpio.setwarnings / gpio.setmode; oldState = 0
InitOldState ==
    /\ mpc = "gpio"
    /\ oldState' = 0
    /\ mpc' = "arm"
    /\ UNCHANGED << uiKeys, pending, failures >>
    /\ UNCHANGED handlerVars
    /\ UNCHANGED envVars

\* gpio.setup(irqPin, ...); gpio.add_event_detect(irqPin, FALLING, mcp_irq)
Arm ==
    /\ mpc = "arm"
    /\ armed' = TRUE
    /\ mpc' = "loop"
    /\ UNCHANGED << oldState, uiKeys, pending, failures >>
    /\ UNCHANGED handlerVars
    /\ UNCHANGED << port, intEnabled, irqLow, edgePending >>

\* ------------------------------------------------------------------------
\* Main program: the watchdog loop
\* ------------------------------------------------------------------------

\* A watchdog that translates what it reads: it stores the snapshot.
WatchdogTick_Stores ==
    /\ mpc = "loop"
    /\ irqLow' = FALSE
    /\ oldState' = Combine(ReadBlock(port))
    /\ UNCHANGED << mpc, uiKeys, pending, failures >>
    /\ UNCHANGED handlerVars
    /\ UNCHANGED << port, intEnabled, armed, edgePending >>

\* A watchdog whose x is the x the handler works with: its read replaces
\* the snapshot of a pass in progress.
WatchdogTick_SharesX ==
    /\ mpc = "loop"
    /\ irqLow' = FALSE
    /\ newState' = IF hpc \in {"cmp", "loop", "syn", "advance"}
                       THEN Combine(ReadBlock(port))
                       ELSE newState
    /\ UNCHANGED << mpc, oldState, uiKeys, pending, failures >>
    /\ UNCHANGED << hpc, emitted, synced, outcome, inflight >>
    /\ UNCHANGED << port, intEnabled, armed, edgePending >>

\* One turn of the loop: time.sleep(0.1), then
\* x = bus.read_i2c_block_data(addr, GPIOA, 2).  The result goes to the
\* module-level x, which nothing reads; the read itself releases the
\* expander's interrupt line.
WatchdogTick ==
    /\ mpc = "loop"
    /\ irqLow' = FALSE
    /\ UNCHANGED << mpc, oldState, uiKeys, pending, failures >>
    /\ UNCHANGED handlerVars
    /\ UNCHANGED << port, intEnabled, armed, edgePending >>

\* The watchdog's read raises: the exception leaves the while loop and the
\* main program ends.
WatchdogReadFail ==
    /\ mpc = "loop"
    /\ CanFail
    /\ failures' = failures + 1
    /\ mpc' = "dead"
    /\ UNCHANGED << oldState, uiKeys, pending >>
    /\ UNCHANGED handlerVars
    /\ UNCHANGED envVars

\* ------------------------------------------------------------------------
\* The expander's pins and the edge detector
\* ------------------------------------------------------------------------

\* A button or stick contact changes level.  With interrupt-on-change
\* configured the expander pulls its interrupt line low; if the line was
\* high and the callback is registered, the edge detector sees a falling
\* edge.
PortChange ==
    /\ Running
    /\ \E p \in PortValues \ {port} : port' = p
    /\ irqLow' = (irqLow \/ intEnabled)
    /\ edgePending' = (edgePending \/ (armed /\ intEnabled /\ ~irqLow))
    /\ UNCHANGED << mpc, oldState, uiKeys, pending, failures >>
    /\ UNCHANGED handlerVars
    /\ UNCHANGED << intEnabled, armed >>

\* The same change, with the falling edge missed: the line goes low and
\* no callback is queued.
PortChangeEdgeMissed ==
    /\ Running
    /\ armed /\ intEnabled /\ ~irqLow
    /\ \E p \in PortValues \ {port} : port' = p
    /\ irqLow' = TRUE
    /\ UNCHANGED << mpc, oldState, uiKeys, pending, failures >>
    /\ UNCHANGED handlerVars
    /\ UNCHANGED << intEnabled, armed, edgePending >>

\* ------------------------------------------------------------------------
\* The callback thread: mcp_irq
\* ------------------------------------------------------------------------

\* A callback facility that starts a callback for every edge at once.
CallbackThreadIdle_Always == TRUE

\* The callback thread runs one callback at a time.
CallbackThreadIdle == hpc = "idle"

\* The edge detector's thread calls mcp_irq(pin).
HandlerStart ==
    /\ Running
    /\ edgePending
    /\ CallbackThreadIdle
    /\ edgePending' = FALSE
    /\ hpc' = "read"
    /\ emitted' = << >>
    /\ synced' = 0
    /\ inflight' = inflight + 1
    /\ UNCHANGED << mpc, oldState, newState, uiKeys, pending, outcome,
                    failures >>
    /\ UNCHANGED << port, intEnabled, irqLow, armed >>

\* x = bus.read_i2c_block_data(addr, GPIOA, 2)
\* newState = (x[1] << 8) | x[0]
HandlerRead ==
    /\ Running
    /\ hpc = "read"
    /\ newState' = Combine(ReadBlock(port))
    /\ irqLow' = FALSE
    /\ hpc' = "cmp"
    /\ UNCHANGED << mpc, oldState, uiKeys, pending, emitted, synced,
                    outcome, inflight, failures >>
    /\ UNCHANGED << port, intEnabled, armed, edgePending >>

\* A failed read taken for a snapshot of 0 and stored as the new base.
HandlerReadFail_StoresZero ==
    /\ Running
    /\ hpc = "read"
    /\ CanFail
    /\ failures' = failures + 1
    /\ oldState' = 0
    /\ hpc' = "idle"
    /\ outcome' = "readfail"
    /\ inflight' = inflight - 1
    /\ UNCHANGED << mpc, newState, uiKeys, pending, emitted, synced >>
    /\ UNCHANGED envVars

\* The read raises: the exception leaves mcp_irq at line 79.
HandlerReadFail ==
    /\ Running
    /\ hpc = "read"
    /\ CanFail
    /\ failures' = failures + 1
    /\ hpc' = "idle"
    /\ outcome' = "readfail"
    /\ inflight' = inflight - 1
    /\ UNCHANGED << mpc, oldState, newState, uiKeys, pending, emitted,
                    synced >>
    /\ UNCHANGED envVars

\* if newState == oldState: return
HandlerDedup ==
    /\ Running
    /\ hpc = "cmp"
    /\ NoChange(newState, oldState)
    /\ hpc' = "idle"
    /\ outcome' = "dedup"
    /\ inflight' = inflight - 1
    /\ newState' = 0
    /\ UNCHANGED << mpc, oldState, uiKeys, pending, emitted, synced,
                    failures >>
    /\ UNCHANGED envVars

\* The state advanced before the events are written and flushed.
HandlerDiff_AdvancesFirst ==
    /\ Running
    /\ hpc = "cmp"
    /\ ~NoChange(newState, oldState)
    /\ oldState' = newState
    /\ hpc' = "loop"
    /\ UNCHANGED << mpc, newState, uiKeys, pending, emitted, synced,
                    outcome, inflight, failures >>
    /\ UNCHANGED envVars

\* Something changed: enter the loop over the 16 bits.
HandlerDiff ==
    /\ Running
    /\ hpc = "cmp"
    /\ ~NoChange(newState, oldState)
    /\ hpc' = "loop"
    /\ UNCHANGED << mpc, oldState, newState, uiKeys, pending, emitted,
                    synced, outcome, inflight, failures >>
    /\ UNCHANGED envVars

\* for i in range(16): the loop writes one event for every bit whose
\* level differs, ui.write(e.EV_KEY, key[i], 0 if lvl else 1).
HandlerEmit ==
    /\ Running
    /\ hpc = "loop"
    /\ LET evs == LoopEvents(newState, oldState, 0) IN
        /\ pending' = pending \o evs
        /\ emitted' = emitted \o evs
    /\ hpc' = "syn"
    /\ UNCHANGED << mpc, oldState, newState, uiKeys, synced, outcome,
                    inflight, failures >>
    /\ UNCHANGED envVars

\* One ui.write of the loop raises: the exception leaves mcp_irq at line
\* 90; the events written before it stay in the sink, unflushed.
HandlerWriteFail ==
    /\ Running
    /\ hpc = "loop"
    /\ CanFail
    /\ LET evs == LoopEvents(newState, oldState, 0) IN
        \E n \in 0..(Len(evs) - 1) :
            pending' = pending \o SubSeq(evs, 1, n)
    /\ failures' = failures + 1
    /\ hpc' = "idle"
    /\ outcome' = "writefail"
    /\ inflight' = inflight - 1
    /\ newState' = 0
    /\ emitted' = << >>
    /\ UNCHANGED << mpc, oldState, uiKeys, synced >>
    /\ UNCHANGED envVars

\* ui.syn(): the sink delivers the events written since the last syn.
HandlerSyn ==
    /\ Running
    /\ hpc = "syn"
    /\ pending' = << >>
    /\ synced' = synced + 1
    /\ hpc' = "advance"
    /\ UNCHANGED << mpc, oldState, newState, uiKeys, emitted, outcome,
                    inflight, failures >>
    /\ UNCHANGED envVars

\* ui.syn raises: the exception leaves mcp_irq at line 91.
HandlerSynFail ==
    /\ Running
    /\ hpc = "syn"
    /\ CanFail
    /\ failures' = failures + 1
    /\ hpc' = "idle"
    /\ outcome' = "synfail"
    /\ inflight' = inflight - 1
    /\ newState' = 0
    /\ emitted' = << >>
    /\ UNCHANGED << mpc, oldState, uiKeys, pending, synced >>
    /\ UNCHANGED envVars

\* oldState = newState, and mcp_irq returns.
HandlerAdvance ==
    /\ Running
    /\ hpc = "advance"
    /\ oldState' = newState
    /\ hpc' = "idle"
    /\ outcome' = "done"
    /\ inflight' = inflight - 1
    /\ newState' = 0
    /\ emitted' = << >>
    /\ synced' = 0
    /\ UNCHANGED << mpc, uiKeys, pending, failures >>
    /\ UNCHANGED envVars

\* ------------------------------------------------------------------------
\* Specification
\* ------------------------------------------------------------------------

Next ==
    \/ CreateUi
    \/ ConfigBank
    \/ ConfigBlock
    \/ StartupFail
    \/ InitOldState
    \/ Arm
    \/ WatchdogTick
    \/ WatchdogReadFail
    \/ PortChange
    \/ PortChangeEdgeMissed
    \/ HandlerStart
    \/ HandlerRead
    \/ HandlerReadFail
    \/ HandlerDedup
    \/ HandlerDiff
    \/ HandlerEmit
    \/ HandlerWriteFail
    \/ HandlerSyn
    \/ HandlerSynFail
    \/ HandlerAdvance

Spec == Init /\ [][Next]_vars

\* The steps of mcp_irq that follow one another without waiting.
HandlerProgress ==
    \/ HandlerStart
    \/ HandlerRead
    \/ HandlerDedup
    \/ HandlerDiff
    \/ HandlerEmit
    \/ HandlerSyn
    \/ HandlerAdvance

\* The main loop's sleep returns and the callback thread is scheduled.
FairSpec ==
    /\ Spec
    /\ WF_vars(WatchdogTick)
    /\ WF_vars(HandlerProgress)

\* ------------------------------------------------------------------------
\* Helpers of the properties
\* ------------------------------------------------------------------------

\* Level of bit b of the snapshot v.
Bit(v, b) == (v \div (2 ^ b)) % 2

BitIndices == 0..(NumBits - 1)

\* Bits whose entry of the key table is 0.
UnmappedBits == { b \in BitIndices : key[b + 1] = 0 }

\* Bits that differ between two snapshots and have a key.
MappedChanges(new, old) ==
    { b \in BitIndices \ UnmappedBits : Bit(new, b) # Bit(old, b) }

\* Positions of the events of a sequence that carry the given key code.
EventsWithCode(evs, c) == { k \in DOMAIN evs : evs[k].code = c }

\* evs holds exactly one event per changed mapped bit, with the direction
\* of the new level (1 = down when the new level is 0), and nothing else.
IsMappedDiff(evs, new, old) ==
    /\ Len(evs) = Cardinality(MappedChanges(new, old))
    /\ \A b \in MappedChanges(new, old) :
        /\ Cardinality(EventsWithCode(evs, key[b + 1])) = 1
        /\ \A k \in EventsWithCode(evs, key[b + 1]) :
            evs[k].value = (IF Bit(new, b) = 0 THEN 1 ELSE 0)

\* The handler has read its snapshot and has not yet stored it.
PassInProgress == hpc \in {"cmp", "loop", "syn", "advance"}

\* The snapshot a bus read would return now.
PortNow == Combine(ReadBlock(port))

\* ------------------------------------------------------------------------
\* Properties
\* ------------------------------------------------------------------------

\* C1: a handler pass that reads B while oldState is A # B emits exactly
\* one event per differing mapped bit, with value 1 (down) iff the bit of
\* B is 0, and no other event.  Stated for a pass that has written all its
\* events.  The code violates it: it also writes an event, with key code
\* 0, for a differing bit whose table entry is 0.
C1_ExactlyMappedDiffEvents ==
    hpc \in {"syn", "advance"} => IsMappedDiff(emitted, newState, oldState)

\* C2: a pass that reads the snapshot oldState already holds returns at
\* once: it writes no event, makes no syn and leaves oldState as it is.
C2_DedupIsNoOp ==
    [][(hpc = "cmp" /\ newState = oldState /\ hpc' # hpc)
        => /\ hpc' = "idle"
           /\ emitted = << >> /\ emitted' = << >>
           /\ synced = 0 /\ synced' = 0
           /\ pending' = pending
           /\ oldState' = oldState]_vars

C2_Witness ==
    /\ hpc = "idle"
    /\ outcome = "dedup"
    /\ oldState = PortNow

\* C3: no handler pass writes an event to the sink for bit 6 or bit 7 (the
\* bits whose key is 0).  The code violates it.
C3_NoEventForUnmappedBit ==
    \A b \in UnmappedBits : EventsWithCode(pending, key[b + 1]) = {}

\* C4: when a pass with a non-empty diff reaches its syn, the events the
\* sink has received since the previous syn are exactly the events of that
\* pass's diff: nothing left over from another pass and nothing missing.
\* The code violates it.
C4_BatchIsThePassDiff ==
    hpc = "syn" => IsMappedDiff(pending, newState, oldState)

\* C5: oldState changes only in the step that ends a pass, after every
\* event of the pass has been written and the one syn has completed, and
\* then it becomes the snapshot that pass read; a pass that a failing
\* write or syn cuts short leaves oldState as it is.
C5_AdvanceOnlyAfterSuccess ==
    [][/\ (oldState # Undefined /\ oldState' # oldState)
            => /\ hpc = "advance" /\ hpc' = "idle"
               /\ emitted = LoopEvents(newState, oldState, 0)
               /\ synced = 1
               /\ pending = << >>
               /\ oldState' = newState
       /\ (hpc \in {"loop", "syn"} /\ hpc' = "idle")
            => oldState' = oldState]_vars

C5_Witness ==
    /\ hpc = "idle"
    /\ outcome = "writefail"
    /\ pending # << >>
    /\ oldState # Undefined
    /\ oldState # PortNow

\* C6 as claimed: the watchdog's bus read never occurs between the
\* handler's bus read and its assignment to oldState.
C6_NoWatchdogReadDuringPass ==
    [][WatchdogTick => ~PassInProgress]_vars

\* C6 as amended: nothing serializes the two contexts, and a watchdog read
\* that occurs while a pass is in progress changes nothing the pass works
\* with: not oldState, not the snapshot the pass read, not its position,
\* not the events it has written.
C6_WatchdogReadLeavesPassAlone ==
    [][(WatchdogTick /\ PassInProgress)
        => UNCHANGED << oldState, newState, hpc, emitted, synced, pending >>]_vars

\* A pass is in progress, the port has changed since the pass read it
\* (which pulled the interrupt line low), and the line is high again: the
\* watchdog has read the port in the middle of the pass.
C6_Witness ==
    /\ PassInProgress
    /\ intEnabled
    /\ PortNow # newState
    /\ ~irqLow

C8_WatchdogFailureKeepsRunning ==
    ~(mpc = "dead" /\ armed)

\* C9: a pass whose bus read fails writes no event, makes no syn, leaves
\* oldState and the sink as they are and ends with the program running;
\* the pass that follows it runs in full: it writes the events of the diff
\* between what it reads and oldState, and makes one syn.
C9_ReadFailureIsNoChange ==
    /\ [][(hpc = "read" /\ hpc' = "idle")
            => /\ emitted = << >> /\ emitted' = << >>
               /\ synced = 0 /\ synced' = 0
               /\ pending' = pending
               /\ oldState' = oldState
               /\ mpc' = "loop"]_vars
    /\ []((outcome = "readfail" /\ hpc = "advance")
            => /\ emitted = LoopEvents(newState, oldState, 0)
               /\ synced = 1)

C9_Witness ==
    /\ outcome = "readfail"
    /\ hpc = "advance"
    /\ emitted # << >>
    /\ mpc = "loop"

\* C10: a watchdog tick never changes oldState, never writes an event and
\* never makes a syn, whatever the handler is doing.
C10_WatchdogFrame ==
    [][(WatchdogTick \/ WatchdogReadFail)
        => UNCHANGED << oldState, pending, emitted, synced >>]_vars

\* The last pass ended well and none is pending, the port differs from
\* oldState and the interrupt line is high: a watchdog read has released
\* the line after the change, and oldState still holds the old snapshot.
C10_Witness ==
    /\ hpc = "idle"
    /\ outcome = "done"
    /\ ~edgePending
    /\ intEnabled
    /\ ~irqLow
    /\ oldState # PortNow
    /\ mpc = "loop"

\* C11: the callback is registered only when the start-up sequence is
\* complete: the device is configured, the UInput device exists and
\* oldState has its initial value; no edge is detected and no handler pass
\* runs before that.
C11_HandlerOnlyAfterInit ==
    /\ armed => /\ mpc \in {"loop", "dead"}
                /\ intEnabled
                /\ uiKeys # {}
                /\ oldState # Undefined
    /\ (hpc # "idle" \/ edgePending) => armed

\* The first handler pass has begun.
C11_Witness ==
    /\ hpc = "read"
    /\ outcome = "none"
    /\ armed
    /\ oldState = 0

\* The bit a key code of the table belongs to.
BitOfCode(c) == CHOOSE b \in BitIndices \ UnmappedBits : key[b + 1] = c

\* Positions of the events of a sequence that carry a key code other than 0.
MappedPositions(evs) == { k \in DOMAIN evs : evs[k].code # 0 }

\* C13: a pass writes, before its one syn, one event for every changed
\* mapped bit, in ascending order of the bit index; from oldState 0xFEFE a
\* pass that reads 0xFFFF writes up for bit 0, then up for bit 8.
C13_ChordInAscendingOrder ==
    hpc \in {"syn", "advance"} =>
        /\ \A b \in MappedChanges(newState, oldState) :
            /\ Cardinality(EventsWithCode(emitted, key[b + 1])) = 1
            /\ \A k \in EventsWithCode(emitted, key[b + 1]) :
                emitted[k].value = (IF Bit(newState, b) = 0 THEN 1 ELSE 0)
        /\ \A k, l \in MappedPositions(emitted) :
            k < l => BitOfCode(emitted[k].code) < BitOfCode(emitted[l].code)
        /\ synced = (IF hpc = "advance" THEN 1 ELSE 0)
        /\ (oldState = 65278 /\ newState = 65535) =>
            emitted = << [code |-> key[1], value |-> 0],
                         [code |-> key[9], value |-> 0] >>

C13_Witness ==
    /\ hpc = "advance"
    /\ oldState = 65278
    /\ newState = 65535
    /\ Len(emitted) = 2
    /\ synced = 1

\* The snapshots a bus read can return.
Snapshots == 0..65535

\* C14: oldState is 0 once the start-up sequence has set it and until the
\* first pass ends; afterwards only the last step of a handler pass
\* changes it, to the snapshot that pass read from the bus; it is always
\* a 16-bit value.
C14_OldStateLifecycle ==
    /\ [](oldState # Undefined => oldState \in Snapshots)
    /\ []((mpc \in {"arm", "loop"} /\ outcome = "none") => oldState = 0)
    /\ []((hpc # "idle" /\ hpc # "read") => newState \in Snapshots)
    /\ [][(hpc = "read" /\ hpc' = "cmp") => newState' = PortNow]_vars
    /\ [][oldState' # oldState
            => \/ oldState = Undefined /\ oldState' = 0
               \/ hpc = "advance" /\ oldState' = newState]_vars

\* A second pass has stored what it read.
C14_Witness ==
    /\ hpc = "idle"
    /\ outcome = "done"
    /\ oldState = 65278
    /\ port = 65278

\* C15: with every button released (every read returns 0xFFFF) the handler
\* writes no event: in particular the first pass after start-up, reading
\* 0xFFFF, writes none.  The code violates it: oldState starts at 0.
C15_NoEventsWhileReleased ==
    (hpc \in {"syn", "advance"} /\ outcome = "none" /\ newState = 65535)
        => emitted = << >>

\* C16: the key codes the UInput device is created with are exactly the
\* entries of the key table other than 0.  The code violates it: it passes
\* the whole table.
C16_AdvertisesMappedCodesOnly ==
    mpc # "ui" => uiKeys = { key[b + 1] : b \in BitIndices \ UnmappedBits }

\* The line is low, no callback is queued and none is running.
InterruptStuck ==
    /\ armed
    /\ irqLow
    /\ ~edgePending
    /\ hpc = "idle"

\* C12: when an edge was missed and the interrupt stays asserted with no
\* handler pass pending, a read of the main loop eventually clears it.
\* The code violates it: a read that raises ends the main loop.
C12_WatchdogClearsStuckInterrupt == InterruptStuck ~> ~irqLow

\* C20: once the interrupt has been asserted for a change and the port
\* stays at p, oldState eventually equals p, also when the edge was missed
\* or the main loop's read cleared the interrupt first.  The code violates
\* it with no bus or sink failure at all.
C20_EventuallyReported ==
    \A p \in PortValues :
        (armed /\ irqLow /\ port = p /\ oldState # p)
            ~> (oldState = p \/ port # p \/ failures > 0)

\* The key codes of the table.
AllCodes == { key[b + 1] : b \in BitIndices }

\* The pressed (1) or released (0) state of every key after the events
\* evs, from the state st.
RECURSIVE ApplyEvents(_, _)
ApplyEvents(st, evs) ==
    IF evs = << >> THEN st
    ELSE ApplyEvents([st EXCEPT ![Head(evs).code] = Head(evs).value],
                     Tail(evs))

\* The events of a complete pass that reads new when oldState is old.
PassEvents(old, new) ==
    IF NoChange(new, old) THEN << >> ELSE LoopEvents(new, old, 0)

\* The state st restricted to the mapped keys.
MappedState(st) == [c \in AllCodes \ {0} |-> st[c]]

\* C17: from any oldState, a pass reading B followed by a pass reading C
\* leaves every mapped key in the state a single pass reading C leaves it
\* in.  Checked where no event has been written yet (every key released)
\* and oldState has its start-up value; the code violates it there.
C17_CoalescingIsSafe ==
    (mpc = "loop" /\ hpc = "idle" /\ outcome = "none") =>
        \A B, C \in PortValues :
            LET released == [c \in AllCodes |-> 0]
                afterB == ApplyEvents(released, PassEvents(oldState, B))
            IN  MappedState(ApplyEvents(afterB, PassEvents(B, C)))
                    = MappedState(ApplyEvents(released,
                                              PassEvents(oldState, C)))

\* The last position of the sequence evs that carries the code c.
LastPosition(evs, c) ==
    CHOOSE k \in EventsWithCode(evs, c) :
        \A l \in EventsWithCode(evs, c) : l <= k

\* C18: with no pass in progress, the most recent event written for a
\* mapped key is down iff the key's bit of oldState is 0.  Stated for the
\* keys that have an event among the written and not yet flushed ones;
\* the code violates it after a write that raised.
C18_SinkMatchesOldState ==
    hpc = "idle" =>
        \A k \in MappedPositions(pending) :
            k = LastPosition(pending, pending[k].code) =>
                (pending[k].value = 1
                    <=> Bit(oldState, BitOfCode(pending[k].code)) = 0)

\* C19: two events written one after the other for the same mapped key
\* never have the same direction.  Stated over the written and not yet
\* flushed events; the code violates it when a pass repeats the events of
\* a pass that raised.
C19_DirectionsAlternate ==
    \A k, l \in MappedPositions(pending) :
        (/\ k < l
         /\ pending[k].code = pending[l].code
         /\ \A m \in (k + 1)..(l - 1) : pending[m].code # pending[k].code)
            => pending[k].value # pending[l].value

====
